---------------------------- MODULE Spec2Model ----------------------------
(***************************************************************************)
(* Fasting start time calculator (src/fasting.py).                         *)
(*                                                                         *)
(* Strings are sequences of one-character strings, so that the regular     *)
(* expression of parse_time, str.split, int(), str.upper and the format    *)
(* specifications of format_time are computed character by character.      *)
(* A Python call either returns a value or raises an exception: every     *)
(* result is a record [kind, val, exc, msg] with kind "return" or "raise". *)
(***************************************************************************)
EXTENDS Integers, Sequences, FiniteSets, TLC

VARIABLES
    pc,                 \* position of the run
    time_str,           \* parse_time: argument time_str
    period,             \* parse_time: argument period
    total_minutes,      \* format_time: argument total_minutes
    use_12_hour,        \* format_time: argument use_12_hour
    back,               \* parse_time applied to the text format_time produced
    current_time_str,   \* calculate_fasting_start / main: current_time_str
    current_period,     \* calculate_fasting_start / main: current_period
    meal_time_str,      \* calculate_fasting_start / main: meal_time_str
    meal_period,        \* calculate_fasting_start / main: meal_period
    fasting_duration,   \* calculate_fasting_start: fasting_duration_hours; main: fasting_duration
    use_12_hour_input,  \* main: use_12_hour_input
    ret,                \* what the function under study returned or raised
    stdout              \* main: the lines printed by the try/except and the final print

vars == <<pc, time_str, period, total_minutes, use_12_hour, back,
          current_time_str, current_period, meal_time_str, meal_period,
          fasting_duration, use_12_hour_input, ret, stdout>>

-----------------------------------------------------------------------------
(* Bounds of the model and constants of the program.                       *)

\* longest time string handed to parse_time on its own
MaxLen == 5
\* largest whole number of fasting hours tried
MaxDurationHours == 50
\* format_time is tried on every integer from -MaxAbsTotal to MaxAbsTotal
MaxAbsTotal == 3000
\* minutes in a day (fasting.py: 1440)
MinutesPerDay == 1440
\* minutes in an hour (fasting.py: 60)
MinutesPerHour == 60

-----------------------------------------------------------------------------
(* Python values.                                                          *)

\* Python's None, as a value comparable with a string (a sequence)
None == <<"<None>">>

\* the value a function has not produced yet
NoResult == [kind |-> "none", val |-> 0, exc |-> "", msg |-> ""]

Return(v) == [kind |-> "return", val |-> v, exc |-> "", msg |-> ""]

Raise(e, m) == [kind |-> "raise", val |-> 0, exc |-> e, msg |-> m]

\* truth value of `if period:` : None and the empty string are false
Truthy(p) == p # None /\ p # << >>

DigitChars == <<"0", "1", "2", "3", "4", "5", "6", "7", "8", "9">>

\* \d of the regular expression, on ASCII text
IsDigit(c) == \E i \in 1..Len(DigitChars) : DigitChars[i] = c

DigitVal(c) == (CHOOSE i \in 1..Len(DigitChars) : DigitChars[i] = c) - 1

\* characters str.strip and int() drop at both ends
IsSpace(c) == c \in {" ", "\n", "\t"}

RECURSIVE LStrip(_)
LStrip(s) == IF s # << >> /\ IsSpace(Head(s)) THEN LStrip(Tail(s)) ELSE s

RECURSIVE RStrip(_)
RStrip(s) ==
    IF s # << >> /\ IsSpace(s[Len(s)]) THEN RStrip(SubSeq(s, 1, Len(s) - 1)) ELSE s

\* str.strip()
Strip(s) == RStrip(LStrip(s))

\* value of a sequence of digits, most significant first
RECURSIVE DigitsVal(_)
DigitsVal(s) ==
    IF s = << >> THEN 0
    ELSE DigitsVal(SubSeq(s, 1, Len(s) - 1)) * 10 + DigitVal(s[Len(s)])

\* int(text) for the texts the regular expression lets through: digits, with
\* surrounding whitespace dropped
PyInt(s) == DigitsVal(Strip(s))

\* index of the first ':' of s, 0 if there is none
FirstColon(s) ==
    IF \E i \in 1..Len(s) : s[i] = ":"
    THEN CHOOSE i \in 1..Len(s) : s[i] = ":" /\ \A j \in 1..(i - 1) : s[j] # ":"
    ELSE 0

\* the pattern \d{1,2}:\d{2} against the whole of t
MatchesCore(t) ==
    \E n \in {1, 2} :
        /\ Len(t) = n + 3
        /\ \A i \in 1..n : IsDigit(t[i])
        /\ t[n + 1] = ":"
        /\ IsDigit(t[n + 2])
        /\ IsDigit(t[n + 3])

\* re.match(r'^\d{1,2}:\d{2}$', s): '$' matches at the end of the string and
\* also just before a newline that ends the string
ReMatch(s) ==
    \/ MatchesCore(s)
    \/ /\ s # << >>
       /\ s[Len(s)] = "\n"
       /\ MatchesCore(SubSeq(s, 1, Len(s) - 1))

LowerChars == <<"a", "b", "c", "d", "e", "f", "g", "h", "i", "j", "k", "l", "m",
                "n", "o", "p", "q", "r", "s", "t", "u", "v", "w", "x", "y", "z">>

UpperChars == <<"A", "B", "C", "D", "E", "F", "G", "H", "I", "J", "K", "L", "M",
                "N", "O", "P", "Q", "R", "S", "T", "U", "V", "W", "X", "Y", "Z">>

UpperChar(c) ==
    IF \E i \in 1..Len(LowerChars) : LowerChars[i] = c
    THEN UpperChars[CHOOSE i \in 1..Len(LowerChars) : LowerChars[i] = c]
    ELSE c

\* str.upper()
Upper(s) == [i \in 1..Len(s) |-> UpperChar(s[i])]

AM == <<"A", "M">>

PM == <<"P", "M">>

-----------------------------------------------------------------------------
(* parse_time                                                              *)

\* ParseTime12 with line 23 reduced to `if period == "PM":`, noon pushed to 24
ParseTime12_NoonPlus12(hours, minutes, p) ==
    LET up == Upper(p) IN
    IF up \notin {AM, PM}
    THEN Raise("ValueError", "Period must be either AM or PM.")
    ELSE IF hours > 12 \/ hours < 1
    THEN Raise("ValueError", "For 12-hour format, hours must be between 1 and 12.")
    ELSE IF up = PM THEN Return((hours + 12) * MinutesPerHour + minutes)
    ELSE IF up = AM /\ hours = 12 THEN Return(0 * MinutesPerHour + minutes)
    ELSE Return(hours * MinutesPerHour + minutes)

\* lines 17-26, 33: the 12-hour branch, period given
ParseTime12(hours, minutes, p) ==
    LET up == Upper(p) IN
    IF up \notin {AM, PM}
    THEN Raise("ValueError", "Period must be either AM or PM.")
    ELSE IF hours > 12 \/ hours < 1
    THEN Raise("ValueError", "For 12-hour format, hours must be between 1 and 12.")
    ELSE IF up = PM /\ hours # 12 THEN Return((hours + 12) * MinutesPerHour + minutes)
    ELSE IF up = AM /\ hours = 12 THEN Return(0 * MinutesPerHour + minutes)
    ELSE Return(hours * MinutesPerHour + minutes)

\* lines 28-33: the 24-hour branch, no period
ParseTime24(hours, minutes) ==
    IF hours > 23
    THEN Raise("ValueError", "For 24-hour format, hours must be between 0 and 23.")
    ELSE Return(hours * MinutesPerHour + minutes)

\* lines 3-33
ParseTime(s, p) ==
    IF ~ReMatch(s)
    THEN Raise("ValueError", "Time must be in HH:MM format.")
    ELSE
        LET c == FirstColon(s)
            hours == PyInt(SubSeq(s, 1, c - 1))
            minutes == PyInt(SubSeq(s, c + 1, Len(s)))
        IN  IF hours < 0 \/ minutes < 0 \/ minutes >= MinutesPerHour
            THEN Raise("ValueError",
                       "Invalid time. Hours must be non-negative and minutes between 0 and 59.")
            ELSE IF Truthy(p) THEN ParseTime12(hours, minutes, p)
            ELSE ParseTime24(hours, minutes)

-----------------------------------------------------------------------------
(* format_time                                                             *)

\* decimal digits of n >= 0
RECURSIVE NatStr(_)
NatStr(n) ==
    IF n < 10 THEN <<DigitChars[n + 1]>>
    ELSE NatStr(n \div 10) \o <<DigitChars[(n % 10) + 1]>>

\* the format specification {n:02}: sign, then zero padding to width 2
Fmt02(n) ==
    IF n < 0 THEN <<"-">> \o NatStr(-n)
    ELSE IF n < 10 THEN <<"0">> \o NatStr(n)
    ELSE NatStr(n)

\* FormatTime without line 41: total_minutes used as it comes
FormatTime_NotNormalized(tm, twelve) ==
    LET normalized == tm
        hours == normalized \div MinutesPerHour
        minutes == normalized % MinutesPerHour
    IN  IF twelve
        THEN LET per == IF hours < 12 THEN AM ELSE PM
                 dh0 == hours % 12
                 display_hour == IF dh0 = 0 THEN 12 ELSE dh0
             IN  Fmt02(display_hour) \o <<":">> \o Fmt02(minutes) \o <<" ">> \o per
        ELSE Fmt02(hours) \o <<":">> \o Fmt02(minutes)

\* FormatTime without line 48: hour 0 and hour 12 displayed as 00
FormatTime_HourZero(tm, twelve) ==
    LET normalized == tm % MinutesPerDay
        hours == normalized \div MinutesPerHour
        minutes == normalized % MinutesPerHour
    IN  IF twelve
        THEN LET per == IF hours < 12 THEN AM ELSE PM
                 display_hour == hours % 12
             IN  Fmt02(display_hour) \o <<":">> \o Fmt02(minutes) \o <<" ">> \o per
        ELSE Fmt02(hours) \o <<":">> \o Fmt02(minutes)

\* lines 35-51
FormatTime(tm, twelve) ==
    LET normalized == tm % MinutesPerDay
        hours == normalized \div MinutesPerHour
        minutes == normalized % MinutesPerHour
    IN  IF twelve
        THEN LET per == IF hours < 12 THEN AM ELSE PM
                 dh0 == hours % 12
                 display_hour == IF dh0 = 0 THEN 12 ELSE dh0
             IN  Fmt02(display_hour) \o <<":">> \o Fmt02(minutes) \o <<" ">> \o per
        ELSE Fmt02(hours) \o <<":">> \o Fmt02(minutes)

-----------------------------------------------------------------------------
(* calculate_fasting_start                                                 *)

(* A float is [kind, num, den]: kind "fin" is the number num/den with       *)
(* den > 0, the kinds "nan", "inf" and "-inf" are the IEEE specials.        *)
Fin(n, d) == [kind |-> "fin", num |-> n, den |-> d]

NaN == [kind |-> "nan", num |-> 0, den |-> 1]

PosInf == [kind |-> "inf", num |-> 0, den |-> 1]

NegInf == [kind |-> "-inf", num |-> 0, den |-> 1]

\* int() of the rational a/b, b > 0: truncation towards zero
Trunc(a, b) == IF a >= 0 THEN a \div b ELSE -((-a) \div b)

\* DurationMinutes as int(fasting_duration_hours) * 60: the hours truncated
DurationMinutes_WholeHours(x) ==
    IF x.kind = "fin" THEN Return(Trunc(x.num, x.den) * MinutesPerHour)
    ELSE IF x.kind = "nan"
    THEN Raise("ValueError", "cannot convert float NaN to integer")
    ELSE Raise("OverflowError", "cannot convert float infinity to integer")

\* line 65: int(fasting_duration_hours * 60)
DurationMinutes(x) ==
    IF x.kind = "fin" THEN Return(Trunc(x.num * MinutesPerHour, x.den))
    ELSE IF x.kind = "nan"
    THEN Raise("ValueError", "cannot convert float NaN to integer")
    ELSE Raise("OverflowError", "cannot convert float infinity to integer")

\* str(n) of an integer
PyStr(n) == IF n < 0 THEN <<"-">> \o NatStr(-n) ELSE NatStr(n)

Today == <<"t", "o", "d", "a", "y">>

Tomorrow == <<"t", "o", "m", "o", "r", "r", "o", "w">>

\* lines 86-93
DayLabel(day_num) ==
    IF day_num = 0 THEN Today
    ELSE IF day_num = 1 THEN Tomorrow
    ELSE <<"i", "n", " ">> \o PyStr(day_num) \o <<" ", "d", "a", "y", "s">>

\* lines 71-74
MealAbsolute(meal_minutes, current_minutes) ==
    IF meal_minutes <= current_minutes
    THEN meal_minutes + MinutesPerDay
    ELSE meal_minutes

\* Pushed with line 80 as `if fasting_start < current_minutes:`
Pushed_Strict(first_start, current_minutes) == first_start < current_minutes

\* lines 80-82: whether the meal is pushed one more day
Pushed(first_start, current_minutes) == first_start <= current_minutes

\* lines 67-96, the times parsed and the duration converted. The value
\* returned is the pair (fasting_start_str, day_label); the record also
\* keeps the locals it was computed from.
FastingStart(current_minutes, meal_minutes, fasting_duration_minutes, twelve) ==
    LET meal_absolute0 == MealAbsolute(meal_minutes, current_minutes)
        fasting_start0 == meal_absolute0 - fasting_duration_minutes
        push == Pushed(fasting_start0, current_minutes)
        meal_absolute == IF push THEN meal_absolute0 + MinutesPerDay ELSE meal_absolute0
        fasting_start == IF push THEN meal_absolute - fasting_duration_minutes
                         ELSE fasting_start0
        day_num == fasting_start \div MinutesPerDay
    IN  [current_minutes |-> current_minutes,
         meal_minutes |-> meal_minutes,
         fasting_duration_minutes |-> fasting_duration_minutes,
         pushed |-> push,
         meal_absolute |-> meal_absolute,
         fasting_start |-> fasting_start,
         day_num |-> day_num,
         day_label |-> DayLabel(day_num),
         fasting_start_str |-> FormatTime(fasting_start, twelve)]

\* lines 53-96: an exception of either parse_time call or of int() leaves
\* the function at once
CalculateFastingStart(cts, mts, hours, cp, mp, twelve) ==
    LET cur == ParseTime(cts, cp)
        meal == ParseTime(mts, mp)
        dur == DurationMinutes(hours)
    IN  IF cur.kind = "raise" THEN cur
        ELSE IF meal.kind = "raise" THEN meal
        ELSE IF dur.kind = "raise" THEN dur
        ELSE Return(FastingStart(cur.val, meal.val, dur.val, twelve))

-----------------------------------------------------------------------------
(* Inputs.                                                                 *)

\* the characters of the time strings tried on parse_time alone
TimeAlphabet == {"0", "1", "2", "3", "6", ":", "\n", "x"}

\* every string over TimeAlphabet of at most MaxLen characters
TimeStrings == UNION {[1..k -> TimeAlphabet] : k \in 0..MaxLen}

\* the periods tried: none, empty, upper, lower and mixed case, a wrong token
PeriodInputs == {None, << >>, AM, PM, <<"a", "m">>, <<"p", "M">>, <<"X", "M">>}

-----------------------------------------------------------------------------
(* parse_time on its own.                                                  *)

InitParse ==
    /\ pc = "parse_time"
    /\ time_str \in TimeStrings
    /\ period \in PeriodInputs
    /\ total_minutes = 0
    /\ use_12_hour = FALSE
    /\ back = NoResult
    /\ current_time_str = << >>
    /\ current_period = None
    /\ meal_time_str = << >>
    /\ meal_period = None
    /\ fasting_duration = Fin(0, 1)
    /\ use_12_hour_input = FALSE
    /\ ret = NoResult
    /\ stdout = << >>

CallParseTime ==
    /\ pc = "parse_time"
    /\ ret' = ParseTime(time_str, period)
    /\ pc' = "parse_time_done"
    /\ UNCHANGED <<time_str, period, total_minutes, use_12_hour, back,
                   current_time_str, current_period, meal_time_str, meal_period,
                   fasting_duration, use_12_hour_input, stdout>>

NextParse == CallParseTime

SpecParse == InitParse /\ [][NextParse]_vars

-----------------------------------------------------------------------------
(* format_time on its own, and parse_time on the text it produced.          *)

InitFormat ==
    /\ pc = "format_time"
    /\ total_minutes \in (-MaxAbsTotal)..MaxAbsTotal
    /\ use_12_hour \in BOOLEAN
    /\ time_str = << >>
    /\ period = None
    /\ back = NoResult
    /\ current_time_str = << >>
    /\ current_period = None
    /\ meal_time_str = << >>
    /\ meal_period = None
    /\ fasting_duration = Fin(0, 1)
    /\ use_12_hour_input = FALSE
    /\ ret = NoResult
    /\ stdout = << >>

CallFormatTime ==
    /\ pc = "format_time"
    /\ ret' = Return(FormatTime(total_minutes, use_12_hour))
    /\ pc' = "format_time_done"
    /\ UNCHANGED <<time_str, period, total_minutes, use_12_hour, back,
                   current_time_str, current_period, meal_time_str, meal_period,
                   fasting_duration, use_12_hour_input, stdout>>

\* index of the first blank of s, 0 if there is none
FirstBlank(s) ==
    IF \E i \in 1..Len(s) : s[i] = " "
    THEN CHOOSE i \in 1..Len(s) : s[i] = " " /\ \A j \in 1..(i - 1) : s[j] # " "
    ELSE 0

\* the displayed text handed back to parse_time: the time before the blank
\* as time_str, the AM/PM after it (None when there is none) as period
ParseBack ==
    /\ pc = "format_time_done"
    /\ LET b == FirstBlank(ret.val) IN
       /\ time_str' = IF b = 0 THEN ret.val ELSE SubSeq(ret.val, 1, b - 1)
       /\ period' = IF b = 0 THEN None ELSE SubSeq(ret.val, b + 1, Len(ret.val))
    /\ back' = ParseTime(time_str', period')
    /\ pc' = "parsed_back"
    /\ UNCHANGED <<total_minutes, use_12_hour,
                   current_time_str, current_period, meal_time_str, meal_period,
                   fasting_duration, use_12_hour_input, ret, stdout>>

NextFormat == CallFormatTime \/ ParseBack

SpecFormat == InitFormat /\ [][NextFormat]_vars

-----------------------------------------------------------------------------
(* calculate_fasting_start on its own, on valid times: both times are      *)
(* given in the same convention, which is also the convention displayed.   *)

ClockHours24 == 0..23

ClockHours12 == 1..12

\* the minutes of the hour tried
MinuteSamples == {0, 1, 59}

\* the text HH:MM of hour h and minute m
Clock(h, m) == Fmt02(h) \o <<":">> \o Fmt02(m)

\* valid (time_str, period) pairs of one input convention
ValidTimes(twelve) ==
    IF twelve
    THEN {<<Clock(h, m), p>> : h \in ClockHours12, m \in MinuteSamples, p \in {AM, PM}}
    ELSE {<<Clock(h, m), None>> : h \in ClockHours24, m \in MinuteSamples}

\* whole hours up to MaxDurationHours; whole days plus 1, 2 or 63
\* sixty-fourths of an hour (0, 1 and 59 whole minutes)
DurationInputs ==
    {Fin(h, 1) : h \in 0..MaxDurationHours}
        \cup {Fin(64 * 24 * k + n, 64) : k \in 0..2, n \in {1, 2, 63}}

InitCalc ==
    /\ pc = "calculate_fasting_start"
    /\ use_12_hour_input \in BOOLEAN
    /\ \E c \in ValidTimes(use_12_hour_input), m \in ValidTimes(use_12_hour_input) :
        /\ current_time_str = c[1]
        /\ current_period = c[2]
        /\ meal_time_str = m[1]
        /\ meal_period = m[2]
    /\ fasting_duration \in DurationInputs
    /\ time_str = << >>
    /\ period = None
    /\ total_minutes = 0
    /\ use_12_hour = FALSE
    /\ back = NoResult
    /\ ret = NoResult
    /\ stdout = << >>

CallCalculate ==
    /\ pc = "calculate_fasting_start"
    /\ ret' = CalculateFastingStart(current_time_str, meal_time_str, fasting_duration,
                                    current_period, meal_period, use_12_hour_input)
    /\ pc' = "calculate_fasting_start_done"
    /\ UNCHANGED <<time_str, period, total_minutes, use_12_hour, back,
                   current_time_str, current_period, meal_time_str, meal_period,
                   fasting_duration, use_12_hour_input, stdout>>

NextCalc == CallCalculate

SpecCalc == InitCalc /\ [][NextCalc]_vars

-----------------------------------------------------------------------------
(* main: the prompt flow.                                                  *)

\* lines 98-103, get_input: the values it can return when the user types
\* lines of the set given; an empty line is asked for again
GetInput(lines) == {Strip(l) : l \in lines} \ {<< >>}

\* what the user may type at the format prompt
ChoiceLines == {<<"1">>, <<"2">>, <<" ", "1", " ">>, <<"x">>, << >>}

\* what the user may type at a time prompt
TimeLines ==
    {Clock(8, 0), Clock(12, 0), Clock(20, 0), Clock(13, 0),
     <<"8", ":", "0", "0">>, <<" ", "1", "1", ":", "5", "9", " ">>,
     Clock(25, 0), Clock(10, 60), <<"1", ":", "2">>, <<"n", "o", "o", "n">>,
     <<" ">>}

\* what the user may type at a period prompt
PeriodLines == {AM, PM, <<"a", "m">>, <<" ", "p", "m">>, <<"X", "M">>, << >>}

\* what the user may type at the duration prompt, by the value float() gives
\* it; kind "text" is a line float() cannot convert
DurationLines ==
    {[kind |-> "text", num |-> 0, den |-> 1], NaN, PosInf, NegInf,
     Fin(-1, 1), Fin(-1, 64), Fin(0, 1), Fin(1, 64), Fin(2, 1), Fin(16, 1),
     Fin(25, 1)}

\* line 128: float(fasting_duration_input)
PyFloat(line) ==
    IF line.kind = "text"
    THEN Raise("ValueError", "could not convert string to float")
    ELSE Return(line)

\* line 129: fasting_duration <= 0 (a comparison with NaN is false)
LeqZero(x) ==
    IF x.kind = "fin" THEN x.num <= 0
    ELSE x.kind = "-inf"

Init ==
    /\ pc = "format_choice"
    /\ time_str = << >>
    /\ period = None
    /\ total_minutes = 0
    /\ use_12_hour = FALSE
    /\ back = NoResult
    /\ current_time_str = << >>
    /\ current_period = None
    /\ meal_time_str = << >>
    /\ meal_period = None
    /\ fasting_duration = Fin(0, 1)
    /\ use_12_hour_input = FALSE
    /\ ret = NoResult
    /\ stdout = << >>

\* lines 110-111
GetFormatChoice ==
    /\ pc = "format_choice"
    /\ \E format_choice \in GetInput(ChoiceLines) :
        use_12_hour_input' = (format_choice = <<"1">>)
    /\ pc' = "current_time"
    /\ UNCHANGED <<time_str, period, total_minutes, use_12_hour, back,
                   current_time_str, current_period, meal_time_str, meal_period,
                   fasting_duration, ret, stdout>>

\* lines 115-117
GetCurrentTime ==
    /\ pc = "current_time"
    /\ current_time_str' \in GetInput(TimeLines)
    /\ current_period' = None
    /\ pc' = IF use_12_hour_input THEN "current_period" ELSE "meal_time"
    /\ UNCHANGED <<time_str, period, total_minutes, use_12_hour, back,
                   meal_time_str, meal_period,
                   fasting_duration, use_12_hour_input, ret, stdout>>

\* line 118
GetCurrentPeriod ==
    /\ pc = "current_period"
    /\ current_period' \in GetInput(PeriodLines)
    /\ pc' = "meal_time"
    /\ UNCHANGED <<time_str, period, total_minutes, use_12_hour, back,
                   current_time_str, meal_time_str, meal_period,
                   fasting_duration, use_12_hour_input, ret, stdout>>

\* lines 121-123
GetMealTime ==
    /\ pc = "meal_time"
    /\ meal_time_str' \in GetInput(TimeLines)
    /\ meal_period' = None
    /\ pc' = IF use_12_hour_input THEN "meal_period" ELSE "duration"
    /\ UNCHANGED <<time_str, period, total_minutes, use_12_hour, back,
                   current_time_str, current_period,
                   fasting_duration, use_12_hour_input, ret, stdout>>

\* line 124
GetMealPeriod ==
    /\ pc = "meal_period"
    /\ meal_period' \in GetInput(PeriodLines)
    /\ pc' = "duration"
    /\ UNCHANGED <<time_str, period, total_minutes, use_12_hour, back,
                   current_time_str, current_period, meal_time_str,
                   fasting_duration, use_12_hour_input, ret, stdout>>

\* the line `print(f"Input error: {ve}")`
InputError(m) == [kind |-> "Input error", msg |-> m, time |-> << >>, day |-> << >>]

\* the line `print(f"\nYou should start fasting at {fasting_start} {day_label}.")`
StartLine(t, d) == [kind |-> "You should start fasting at", msg |-> "", time |-> t, day |-> d]

\* DurationAccepted with line 129 as `if fasting_duration < 0:`
DurationAccepted_ZeroPasses(x) == ~((x.kind = "fin" /\ x.num < 0) \/ x.kind = "-inf")

\* whether the duration read passes the check of lines 129-130
DurationAccepted(x) == ~LeqZero(x)

\* lines 127-134: the duration is read and checked; a ValueError raised
\* inside the try statement is printed and main returns
GetDuration ==
    /\ pc = "duration"
    /\ \E line \in DurationLines :
        LET f == PyFloat(line) IN
        IF f.kind = "raise"
        THEN /\ stdout' = Append(stdout, InputError(f.msg))
             /\ pc' = "done"
             /\ UNCHANGED fasting_duration
        ELSE IF ~DurationAccepted(f.val)
        THEN /\ fasting_duration' = f.val
             /\ stdout' = Append(stdout, InputError("Fasting duration must be a positive number."))
             /\ pc' = "done"
        ELSE /\ fasting_duration' = f.val
             /\ stdout' = stdout
             /\ pc' = "calculate"
    /\ UNCHANGED <<time_str, period, total_minutes, use_12_hour, back,
                   current_time_str, current_period, meal_time_str, meal_period,
                   use_12_hour_input, ret>>

\* lines 136-141, outside the try statement: an exception raised by
\* calculate_fasting_start ends main with a traceback
Calculate ==
    /\ pc = "calculate"
    /\ ret' = CalculateFastingStart(current_time_str, meal_time_str, fasting_duration,
                                    current_period, meal_period, use_12_hour_input)
    /\ IF ret'.kind = "raise"
       THEN /\ pc' = "uncaught"
            /\ stdout' = stdout
       ELSE /\ pc' = "done"
            /\ stdout' = Append(stdout, StartLine(ret'.val.fasting_start_str, ret'.val.day_label))
    /\ UNCHANGED <<time_str, period, total_minutes, use_12_hour, back,
                   current_time_str, current_period, meal_time_str, meal_period,
                   fasting_duration, use_12_hour_input>>

Next ==
    \/ GetFormatChoice
    \/ GetCurrentTime
    \/ GetCurrentPeriod
    \/ GetMealTime
    \/ GetMealPeriod
    \/ GetDuration
    \/ Calculate

Spec == Init /\ [][Next]_vars

-----------------------------------------------------------------------------
(* Reading a time text independently of parse_time and format_time.        *)

\* s is of shape H:MM or HH:MM
HasShape(s) ==
    /\ Len(s) \in {4, 5}
    /\ s[Len(s) - 2] = ":"
    /\ \A i \in (1..Len(s)) \ {Len(s) - 2} :
        s[i] \in {"0", "1", "2", "3", "4", "5", "6", "7", "8", "9"}

\* the hour a text of that shape writes
HourOf(s) ==
    IF Len(s) = 4 THEN DigitVal(s[1]) ELSE DigitVal(s[1]) * 10 + DigitVal(s[2])

\* the minute a text of that shape writes
MinuteOf(s) == DigitVal(s[Len(s) - 1]) * 10 + DigitVal(s[Len(s)])

\* s without the one newline that may end it
Line(s) ==
    IF s # << >> /\ s[Len(s)] = "\n" THEN SubSeq(s, 1, Len(s) - 1) ELSE s

\* a period is supplied: neither None nor empty
Supplied(p) == p # None /\ p # << >>

IsAM(p) == p \in {<<a, b>> : a \in {"A", "a"}, b \in {"M", "m"}}

IsPM(p) == p \in {<<a, b>> : a \in {"P", "p"}, b \in {"M", "m"}}

\* the hour of the day that hour h stands for under period p
H24(h, p) ==
    IF Supplied(p) /\ IsPM(p) /\ h # 12 THEN h + 12
    ELSE IF Supplied(p) /\ IsAM(p) /\ h = 12 THEN 0
    ELSE h

\* the hours that are valid under period p
ValidHour(h, p) == IF Supplied(p) THEN h \in 1..12 ELSE h \in 0..23

\* the minute of the day a displayed text HH:MM or HH:MM AM|PM shows
ShownMinutes(s) ==
    LET h == DigitVal(s[1]) * 10 + DigitVal(s[2])
        m == DigitVal(s[4]) * 10 + DigitVal(s[5])
    IN  IF Len(s) = 5 THEN h * 60 + m
        ELSE (h % 12) * 60 + m + (IF s[7] = "P" THEN 720 ELSE 0)

IsFormatError(r) == r.kind = "raise" /\ r.msg = "Time must be in HH:MM format."

IsRangeError(r) == r.kind = "raise" /\ r.exc = "ValueError" /\ ~IsFormatError(r)

-----------------------------------------------------------------------------
(* Claims about parse_time (SpecParse).                                    *)

ParseDone == pc = "parse_time_done"

\* C5: every input parse_time accepts writes an hour h and a minute m (the
\* newline that may end the text aside), h valid for the mode, and the
\* result is H24(h, period) * 60 + m, a value in 0..1439; "01:30" PM and
\* "13:30" give 810, "12:00" AM gives 0 and "12:00" PM gives 720.
C5_ParseValue ==
    ParseDone =>
        /\ ret.kind = "return" =>
            /\ ret.val \in 0..1439
            /\ HasShape(Line(time_str))
            /\ ValidHour(HourOf(Line(time_str)), period)
            /\ MinuteOf(Line(time_str)) \in 0..59
            /\ ret.val = H24(HourOf(Line(time_str)), period) * 60 + MinuteOf(Line(time_str))
        /\ (time_str = Clock(1, 30) /\ period = PM) => (ret.kind = "return" /\ ret.val = 810)
        /\ (time_str = Clock(13, 30) /\ period = None) => (ret.kind = "return" /\ ret.val = 810)
        /\ (time_str = Clock(12, 0) /\ period = AM) => (ret.kind = "return" /\ ret.val = 0)
        /\ (time_str = Clock(12, 0) /\ period = PM) => (ret.kind = "return" /\ ret.val = 720)

\* "12:30" with a lower-case "pM" has been parsed to 750
C5_Witness ==
    /\ ParseDone
    /\ time_str = <<"1", "2", ":", "3", "0">>
    /\ period = <<"p", "M">>
    /\ ret.kind = "return"
    /\ ret.val = 750

\* C6: parse_time rejects every invalid input: a text not of shape H:MM or
\* HH:MM with a FormatError; minutes above 59, a supplied period that is not
\* AM/PM, an hour outside 1..12 under a supplied period and an hour above 23
\* without a period with a RangeError.
C6_RejectsInvalid ==
    ParseDone =>
        /\ ~HasShape(time_str) => IsFormatError(ret)
        /\ HasShape(time_str) =>
            /\ MinuteOf(time_str) > 59 => IsRangeError(ret)
            /\ (Supplied(period) /\ ~IsAM(period) /\ ~IsPM(period)) => IsRangeError(ret)
            /\ (Supplied(period) /\ HourOf(time_str) \notin 1..12) => IsRangeError(ret)
            /\ (~Supplied(period) /\ HourOf(time_str) > 23) => IsRangeError(ret)

-----------------------------------------------------------------------------
(* Claims about format_time (SpecFormat).                                  *)

\* C7: for every m in 0..1439 and both display modes, parse_time applied to
\* the text of format_time(m, mode) (its time and, in 12-hour mode, its
\* AM/PM) returns m.
C7_RoundTrip ==
    (pc = "parsed_back" /\ total_minutes \in 0..(MinutesPerDay - 1)) =>
        (back.kind = "return" /\ back.val = total_minutes)

\* midnight displayed as 12:00 AM has been parsed back to 0
C7_Witness ==
    /\ pc = "parsed_back"
    /\ use_12_hour
    /\ total_minutes = 0
    /\ time_str = <<"1", "2", ":", "0", "0">>
    /\ period = AM
    /\ back.kind = "return"
    /\ back.val = 0

\* C9: format_time(total_minutes, mode) is format_time(total_minutes mod 1440,
\* mode), it shows the minute total_minutes mod 1440 of the day, and the hour
\* shown is in 0..23 (24-hour mode) or 1..12 (12-hour mode), the minute in 0..59.
C9_FormatModulo ==
    pc = "format_time_done" =>
        /\ ret.val = FormatTime(total_minutes % 1440, use_12_hour)
        /\ Len(ret.val) = IF use_12_hour THEN 8 ELSE 5
        /\ ShownMinutes(ret.val) = total_minutes % 1440
        /\ LET h == DigitVal(ret.val[1]) * 10 + DigitVal(ret.val[2])
               m == DigitVal(ret.val[4]) * 10 + DigitVal(ret.val[5])
           IN  /\ m \in 0..59
               /\ IF use_12_hour THEN h \in 1..12 ELSE h \in 0..23

\* the negative argument -1 has been formatted as 11:59 PM
C9_Witness ==
    /\ pc = "format_time_done"
    /\ total_minutes = -1
    /\ use_12_hour
    /\ ret.val = <<"1", "1", ":", "5", "9", " ", "P", "M">>

-----------------------------------------------------------------------------
(* Claims about calculate_fasting_start (SpecCalc).                        *)

\* calculate_fasting_start has returned
CalcReturned ==
    /\ pc = "calculate_fasting_start_done"
    /\ ret.kind = "return"

PositiveDuration == fasting_duration.kind = "fin" /\ fasting_duration.num > 0

\* the next occurrence of the meal time strictly after the current time
NextMeal(r) ==
    IF r.meal_minutes > r.current_minutes THEN r.meal_minutes ELSE r.meal_minutes + 1440

\* C1: for every positive duration the fasting start is strictly after the
\* current time.
C1_StartInFuture ==
    (CalcReturned /\ PositiveDuration) => ret.val.fasting_start > ret.val.current_minutes

\* C2 as stated: the fast ends at the next occurrence of the meal time
\* strictly after the current time.
C2_EndsAtNextMeal ==
    (CalcReturned /\ PositiveDuration) =>
        ret.val.fasting_start + ret.val.fasting_duration_minutes = NextMeal(ret.val)

\* C2 as amended: the fast ends at the next occurrence N of the meal time
\* when N - d is strictly after the current time, and at N + 1440 otherwise.
C2_EndsAtNextMealOrDayAfter ==
    (CalcReturned /\ PositiveDuration) =>
        LET r == ret.val
            d == r.fasting_duration_minutes
        IN  r.fasting_start + d =
                (IF NextMeal(r) - d > r.current_minutes
                 THEN NextMeal(r)
                 ELSE NextMeal(r) + 1440)

\* current 20:00, meal 12:00, 16 hours: the fast starts at 2640, not 1200
C2_Witness ==
    /\ CalcReturned
    /\ ret.val.current_minutes = 1200
    /\ ret.val.meal_minutes = 720
    /\ ret.val.fasting_duration_minutes = 960
    /\ ret.val.fasting_start = 2640

\* C8: the day label is "today" or "tomorrow": the day number is 0 or 1.
C8_TodayOrTomorrow ==
    (CalcReturned /\ PositiveDuration) =>
        /\ ret.val.day_num \in {0, 1}
        /\ ret.val.day_num = 0 => ret.val.day_label = Today
        /\ ret.val.day_num = 1 => ret.val.day_label = Tomorrow

\* the whole minutes of the duration handed over
WholeMinutes == (fasting_duration.num * 60) \div fasting_duration.den

\* C10: for every whole-minute duration d >= 0, pushed or not, (the time of
\* day returned + d) mod 1440 is meal_minutes, and the absolute meal instant
\* is meal_minutes plus 0, 1440 or 2880.
C10_EndsAtMealClockTime ==
    CalcReturned =>
        /\ (ShownMinutes(ret.val.fasting_start_str) + WholeMinutes) % 1440 = ret.val.meal_minutes
        /\ ret.val.meal_absolute - ret.val.meal_minutes \in {0, 1440, 2880}

\* a fast of more than two days, pushed to the meal two days ahead
C10_Witness ==
    /\ CalcReturned
    /\ WholeMinutes > 2 * MinutesPerDay
    /\ ret.val.pushed
    /\ ret.val.meal_absolute = ret.val.meal_minutes + 2880

-----------------------------------------------------------------------------
(* Claims about main (Spec).                                               *)

\* C3: no run of main ends with an uncaught error.
C3_NoUncaughtError == pc # "uncaught"

\* a duration that is zero, negative or minus infinity
NonPositive(x) == (x.kind = "fin" /\ x.num <= 0) \/ x.kind = "-inf"

\* the fasting start has been printed
StartPrinted == \E i \in 1..Len(stdout) : stdout[i].kind = "You should start fasting at"

\* C4: calculate_fasting_start is never invoked with a duration <= 0, and a
\* run whose duration is <= 0 prints no fasting start.
C4_NonPositiveNeverCalculated ==
    /\ (pc = "calculate" \/ ret.kind # "none") => ~NonPositive(fasting_duration)
    /\ (pc \notin {"format_choice", "current_time", "current_period", "meal_time",
                    "meal_period", "duration"} /\ NonPositive(fasting_duration))
            => ~StartPrinted

\* a run that read the duration -1/64 ended with the error line alone
C4_Witness ==
    /\ pc = "done"
    /\ fasting_duration = Fin(-1, 64)
    /\ ret.kind = "none"
    /\ stdout = <<InputError("Fasting duration must be a positive number.")>>

=============================================================================
